---- MODULE Spec2Model ----
(***************************************************************************)
(* Model of charger-uptime-rs (src/src/main.rs): construct_maps reads the  *)
(* input line by line into the station -> chargers and charger -> reports  *)
(* maps, compute_availability merges every charger's reports, sweeps every *)
(* station's reports and quantizes the result into a percentage, and main  *)
(* sorts and prints the (station, percentage) pairs.                       *)
(*                                                                         *)
(* Times are u64 and ids are u32 in the source.  Every value of the model  *)
(* stays far below 2^31, and the source's subtractions are all of a        *)
(* smaller from a larger value, so no arithmetic of the model wraps; the   *)
(* one narrowing cast (`as u8`) keeps its width.                           *)
(***************************************************************************)
EXTENDS Integers, Sequences, FiniteSets, TLC

\* ------------------------------------------------------------------ bounds
\* Times are the multiples k * TimeStep, k in 0 .. MaxTick.
MaxTick == 3
TimeStep == 5001
\* Reports in one list handed to the normalizer or to the sweep.
MaxWindows == 3
\* Report lines accepted in one run of construct_maps.
MaxReports == 2
\* Chargers listed on one station line.
MaxChargersPerLine == 1

StationIds == {1, 2}
ChargerIds == {1, 2}
Times == {k * TimeStep : k \in 0 .. MaxTick}
\* The times on the report lines of a whole run.
LineTimes == {0, TimeStep}

\* A token that does not parse as an unsigned integer ("A", "-1", or a digit
\* string past the integer's width).
BadToken == -1
UpTokens == {"true", "True", "false", ""}

\* ------------------------------------------------------------ program data
\* struct TimeRange { from, to, up }
TimeRange(f, t, u) == [from |-> f, to |-> t, up |-> u]

\* #[derive(Ord)]: the comparison sort_by(|a,b| a.cmp(&b)) uses, lexicographic
\* over the fields in declaration order (false < true).
cmp_less(a, b) ==
    \/ a.from < b.from
    \/ a.from = b.from /\ a.to < b.to
    \/ a.from = b.from /\ a.to = b.to /\ ~a.up /\ b.up

\* The hand-written PartialOrd (from, then to): not what sort_by is given.
partial_cmp_less(a, b) ==
    \/ a.from < b.from
    \/ a.from = b.from /\ a.to < b.to

RECURSIVE InsertSorted(_, _)
InsertSorted(w, s) ==
    IF s = <<>> THEN <<w>>
    ELSE IF cmp_less(w, Head(s)) THEN <<w>> \o s
    ELSE <<Head(s)>> \o InsertSorted(w, Tail(s))

\* Stable insertion of w after every element that is not greater under
\* partial_cmp.
RECURSIVE InsertPartial(_, _)
InsertPartial(w, s) ==
    IF s = <<>> THEN <<w>>
    ELSE IF partial_cmp_less(w, Head(s)) THEN <<w>> \o s
    ELSE <<Head(s)>> \o InsertPartial(w, Tail(s))

RECURSIVE SortWith(_, _)
SortWith(s, partial) ==
    IF s = <<>> THEN <<>>
    ELSE LET rest == SortWith(SubSeq(s, 1, Len(s) - 1), partial)
         IN  IF partial THEN InsertPartial(s[Len(s)], rest)
             ELSE InsertSorted(s[Len(s)], rest)

\* A sort by the hand-written partial_cmp: stable, so reports with equal
\* (from, to) keep their input order.
SortByPartialCmp(s) == SortWith(s, TRUE)

\* Vec::sort_by(|a,b| a.cmp(&b)): ascending by (from, to, up).
SortRanges(s) == SortWith(s, FALSE)

\* --------------------------------------------------- charger_times_combine
\* The outcome of a call that can fail or panic.
Ok(v) == [kind |-> "ok", value |-> v]
Err(e, id) == [kind |-> "err", error |-> e, id |-> id]
Panic(what) == [kind |-> "panic", error |-> what, id |-> 0]

\* A report that starts exactly where the accumulator ends counted as inside.
StartsInsideOrTouches(curr, curr_report) == curr.from <= curr_report.to

\* `curr.from<curr_report.to`: the report starts inside the accumulator.
StartsInside(curr, curr_report) == curr.from < curr_report.to

\* `curr_report.to = curr.to`: the accumulator's end after merging curr.
MergedTo(curr_report, curr) == curr.to

\* One iteration of the loop over charger_times[1..]: the accumulator and the
\* condensed list after report curr, or the conflict.
CombineIter(condensed_times, curr_report, curr) ==
    IF StartsInside(curr, curr_report)
    THEN IF curr.up = curr_report.up
         THEN [kind |-> "merge", condensed_times |-> condensed_times,
               curr_report |-> [curr_report EXCEPT !.to = MergedTo(curr_report, curr)]]
         ELSE [kind |-> "conflict", condensed_times |-> condensed_times,
               curr_report |-> curr_report]
    ELSE [kind |-> "push", condensed_times |-> Append(condensed_times, curr_report),
          curr_report |-> curr]

RECURSIVE CombineFrom(_, _, _, _)
CombineFrom(charger_times, i, condensed_times, curr_report) ==
    IF i > Len(charger_times)
    THEN Ok(Append(condensed_times, curr_report))
    ELSE LET it == CombineIter(condensed_times, curr_report, charger_times[i])
         IN  IF it.kind = "conflict"
             THEN Err("OverlappingWindows", 0)
             ELSE CombineFrom(charger_times, i + 1, it.condensed_times, it.curr_report)

\* fn charger_times_combine: first().unwrap() panics on an empty list.
charger_times_combine(charger_times) ==
    IF charger_times = <<>>
    THEN Panic("UnwrapNone")
    ELSE CombineFrom(charger_times, 2, <<>>, charger_times[1])

\* -------------------------------------------------- the sweep and the quantizer
SweepInit(first_report) ==
    [first_reported_time |-> first_report.from,
     last_reported_time  |-> first_report.to,
     available_time      |-> IF first_report.up
                             THEN first_report.to - first_report.from ELSE 0,
     reported_till_time  |-> first_report.to]

\* The whole report counted although its start is already covered.
NewlyAvailableWhole(reported_till_time, charger_time) ==
    charger_time.to - charger_time.from

\* What an up report that reaches past reported_till_time adds.
NewlyAvailable(reported_till_time, charger_time) ==
    IF reported_till_time >= charger_time.from
    THEN charger_time.to - reported_till_time
    ELSE charger_time.to - charger_time.from

\* One iteration of the loop over station_reported_time[1..].
SweepIter(sw, charger_time) ==
    LET last == IF sw.last_reported_time < charger_time.to
                THEN charger_time.to ELSE sw.last_reported_time
        seen == [sw EXCEPT !.last_reported_time = last]
    IN  IF ~charger_time.up THEN seen
        ELSE IF sw.reported_till_time >= charger_time.to THEN seen
        ELSE [seen EXCEPT
                !.available_time = @ + NewlyAvailable(sw.reported_till_time, charger_time),
                !.reported_till_time = charger_time.to]

RECURSIVE SweepFrom(_, _, _)
SweepFrom(station_reported_time, i, sw) ==
    IF i > Len(station_reported_time) THEN sw
    ELSE SweepFrom(station_reported_time, i + 1,
                   SweepIter(sw, station_reported_time[i]))

\* Lines 136-177 on a non-empty list: sort, sweep, total_time.
Sweep(station_reported_time) ==
    LET sorted == SortRanges(station_reported_time)
        sw == SweepFrom(sorted, 2, SweepInit(sorted[1]))
    IN  [available_time |-> sw.available_time,
         total_time |-> sw.last_reported_time - sw.first_reported_time]

\* `if total_time>10000`
ScaleThreshold == 10000

\* Lines 179-190: the scaling rule, the division (which panics on a zero
\* divisor) and the cast `as u8`.
\* The quantizer without the threshold test: the total is always divided by
\* one hundred and the available time is never multiplied.
QuantizeAlwaysScalesTotal(available_time, total_time) ==
    LET total == total_time \div 100
    IN  IF total = 0 THEN Panic("DivideByZero")
        ELSE Ok((available_time \div total) % 256)

Quantize(available_time, total_time) ==
    LET total == IF total_time > ScaleThreshold THEN total_time \div 100 ELSE total_time
        available == IF total_time > ScaleThreshold THEN available_time
                     ELSE available_time * 100
    IN  IF total = 0 THEN Panic("DivideByZero")
        ELSE Ok((available \div total) % 256)

\* ----------------------------------------------------------------- parsing
Reverse(s) == [k \in 1 .. Len(s) |-> s[Len(s) + 1 - k]]

\* fn parse_station on the whitespace-separated tokens of a line:
\* swap_remove(0) takes the station id and moves the last token to the front,
\* and the charger ids are then popped from the back.
parse_station(splits) ==
    LET station_id == splits[1]
        rest == Tail(splits)
        popped == IF rest = <<>> THEN <<>>
                  ELSE Reverse(SubSeq(rest, 1, Len(rest) - 1)) \o <<rest[Len(rest)]>>
    IN  IF station_id = BadToken THEN Err("InvalidStationId", 0)
        ELSE IF \E k \in 1 .. Len(popped) : popped[k] = BadToken
        THEN Err("InvalidStationEntry", station_id)
        ELSE Ok([station_id |-> station_id, chargers |-> popped])

\* `match &captures["up_status"] { "true" | "True" => true, _ => false }`
ParseUp(up_status) == up_status \in {"true", "True"}

\* The range check left out.
FromAfterToUnchecked(time_range) == FALSE

\* `if time_range.from>time_range.to`
FromAfterTo(time_range) == time_range.from > time_range.to

\* fn parse_charger_availability on the captures of a line: three digit
\* groups and the optional word after them.  A line the pattern does not
\* match has a BadToken where the digits should be.
parse_charger_availability(line) ==
    IF BadToken \in {line.charger_id, line.start_time, line.end_time}
    THEN Err("UnparsableReport", 0)
    ELSE LET time_range == TimeRange(line.start_time, line.end_time,
                                     ParseUp(line.up_status))
         IN  IF FromAfterTo(time_range)
             THEN Err("FromAfterTo", line.charger_id)
             ELSE Ok([charger_id |-> line.charger_id, time_range |-> time_range])

\* ------------------------------------------------------------------- state
VARIABLES
    pc,                     \* where the run is
    currently_reading,      \* construct_maps: the section being read
    l,                      \* construct_maps: the line just read
    station_charger_map,    \* HashMap<u32, HashSet<u32>>
    charger_uptime_map,     \* HashMap<u32, Vec<TimeRange>>
    stations_left,          \* compute_availability: stations not yet iterated
    station_id,             \* the station being computed
    chargers_left,          \* its chargers not yet iterated
    charger,                \* the charger just iterated
    station_reported_time,  \* Vec<TimeRange> of the station being computed
    available_time,         \* after the sweep
    total_time,             \* after the sweep
    station_availability,   \* Vec<(u32, u8)>
    outcome,                \* how the run ended
    printed,                \* the lines main printed
    charger_times,          \* charger_times_combine: its argument
    i,                      \* its loop index
    condensed_times,        \* its result so far
    curr_report,            \* its accumulator
    combine_result          \* what it returned

vars == <<pc, currently_reading, l, station_charger_map, charger_uptime_map,
          stations_left, station_id, chargers_left, charger,
          station_reported_time, available_time, total_time,
          station_availability, outcome, printed,
          charger_times, i, condensed_times, curr_report, combine_result>>

readerVars == <<currently_reading, l, station_charger_map>>
computeVars == <<stations_left, station_id, chargers_left, charger,
                 station_reported_time, available_time, total_time,
                 station_availability, printed>>
combineVars == <<charger_times, i, condensed_times, curr_report, combine_result>>

NoMap == [x \in {} |-> {}]
NoRange == TimeRange(0, 0, FALSE)
Running == [kind |-> "running", error |-> "", id |-> 0, code |-> 0]
Success == [kind |-> "ok", error |-> "", id |-> 0, code |-> 0]
NoLine == [kind |-> "none"]

\* The lines the reader is given.
TokenSeqs(S, n) == UNION {[1 .. k -> S] : k \in 0 .. n}
StationLines ==
    {[kind |-> "data", splits |-> <<s>> \o cs] :
        s \in StationIds \cup {BadToken},
        cs \in TokenSeqs(ChargerIds, MaxChargersPerLine) \cup {<<BadToken>>}}
ReportLines ==
    {[kind |-> "data", charger_id |-> c, start_time |-> f, end_time |-> t,
      up_status |-> u] :
        c \in ChargerIds \cup {BadToken}, f \in LineTimes, t \in LineTimes,
        u \in UpTokens}

NumReports ==
    LET RECURSIVE Count(_)
        Count(S) == IF S = {} THEN 0
                    ELSE LET c == CHOOSE x \in S : TRUE
                         IN  Len(charger_uptime_map[c]) + Count(S \ {c})
    IN  Count(DOMAIN charger_uptime_map)

RunIdle ==
    /\ stations_left = {} /\ station_id = 0 /\ chargers_left = {} /\ charger = 0
    /\ station_reported_time = <<>> /\ available_time = 0 /\ total_time = 0
    /\ station_availability = <<>> /\ printed = <<>>

CombineIdle ==
    /\ charger_times = <<>> /\ i = 0 /\ condensed_times = <<>>
    /\ curr_report = NoRange /\ combine_result = Running

\* main calls construct_maps on a file that opened.
Init ==
    /\ pc = "construct_maps"
    /\ currently_reading = "None"
    /\ l = NoLine
    /\ station_charger_map = NoMap
    /\ charger_uptime_map = NoMap
    /\ outcome = Running
    /\ RunIdle
    /\ CombineIdle

\* ---------------------------------------------------------- construct_maps
MapPut(m, k, v) == [x \in DOMAIN m \cup {k} |-> IF x = k THEN v ELSE m[x]]
Range(s) == {s[k] : k \in 1 .. Len(s)}

\* main prints the error and exits with the code of the failed stage.
Exit(result, code) ==
    /\ pc' = "exit"
    /\ outcome' = [kind |-> result.kind, error |-> result.error,
                   id |-> result.id, code |-> code]

\* `"" => {}`
ReadBlank ==
    /\ pc = "construct_maps"
    /\ l' = [kind |-> "blank"]
    /\ UNCHANGED <<pc, currently_reading, station_charger_map, charger_uptime_map,
                   outcome, computeVars, combineVars>>

\* `"[Stations]" => currently_reading = InputKind::Station`
ReadStationsHeader ==
    /\ pc = "construct_maps"
    /\ l' = [kind |-> "[Stations]"]
    /\ currently_reading' = "Station"
    /\ UNCHANGED <<pc, station_charger_map, charger_uptime_map,
                   outcome, computeVars, combineVars>>

\* `"[Charger Availability Reports]" => ...`
ReadReportsHeader ==
    /\ pc = "construct_maps"
    /\ l' = [kind |-> "[Charger Availability Reports]"]
    /\ currently_reading' = "ChargerAvailability"
    /\ UNCHANGED <<pc, station_charger_map, charger_uptime_map,
                   outcome, computeVars, combineVars>>

\* A data line before any header: `InputKind::None => return Err(...)`.
ReadOutsideSection ==
    /\ pc = "construct_maps"
    /\ currently_reading = "None"
    /\ \E line \in StationLines \cup ReportLines :
          l' = line
    /\ Exit(Err("InvalidFormat", 0), 2)
    /\ UNCHANGED <<currently_reading, station_charger_map, charger_uptime_map,
                   computeVars, combineVars>>

\* `InputKind::Station => ...`: the station's set is extended by the line's
\* chargers, or the line's error is returned.
ReadStation ==
    /\ pc = "construct_maps"
    /\ currently_reading = "Station"
    /\ \E line \in StationLines :
          LET station_parse_result == parse_station(line.splits)
          IN  /\ l' = line
              /\ IF station_parse_result.kind = "err"
                 THEN /\ Exit(station_parse_result, 2)
                      /\ UNCHANGED station_charger_map
                 ELSE LET station == station_parse_result.value.station_id
                          chargers == Range(station_parse_result.value.chargers)
                          charger_set == IF station \in DOMAIN station_charger_map
                                         THEN station_charger_map[station] ELSE {}
                      IN  /\ station_charger_map' =
                                MapPut(station_charger_map, station,
                                       charger_set \cup chargers)
                          /\ UNCHANGED <<pc, outcome>>
    /\ UNCHANGED <<currently_reading, charger_uptime_map, computeVars, combineVars>>

\* `InputKind::ChargerAvailability => ...`: the report is appended to its
\* charger's list, or the line's error is returned.
ReadReport ==
    /\ pc = "construct_maps"
    /\ currently_reading = "ChargerAvailability"
    /\ NumReports < MaxReports
    /\ \E line \in ReportLines :
          LET charger_parse_result == parse_charger_availability(line)
          IN  /\ l' = line
              /\ IF charger_parse_result.kind = "err"
                 THEN /\ Exit(charger_parse_result, 2)
                      /\ UNCHANGED charger_uptime_map
                 ELSE LET charger_id == charger_parse_result.value.charger_id
                          time_range == charger_parse_result.value.time_range
                          uptime_ranges == IF charger_id \in DOMAIN charger_uptime_map
                                           THEN charger_uptime_map[charger_id]
                                           ELSE <<>>
                      IN  /\ charger_uptime_map' =
                                MapPut(charger_uptime_map, charger_id,
                                       Append(uptime_ranges, time_range))
                          /\ UNCHANGED <<pc, outcome>>
    /\ UNCHANGED <<currently_reading, station_charger_map, computeVars, combineVars>>

\* `if let Err(line_error) = wrapped_line { return Err(line_error); }`
ReadFails ==
    /\ pc = "construct_maps"
    /\ l' = NoLine
    /\ Exit(Err("Io", 0), 2)
    /\ UNCHANGED <<currently_reading, station_charger_map, charger_uptime_map,
                   computeVars, combineVars>>

\* The lines are exhausted: construct_maps returns the maps and main calls
\* compute_availability, which starts its loop over the stations.  The
\* reader's locals (currently_reading, l) are gone with its frame.
EndOfFile ==
    /\ pc = "construct_maps"
    /\ pc' = "stations"
    /\ l' = NoLine
    /\ currently_reading' = "None"
    /\ stations_left' = DOMAIN station_charger_map
    /\ UNCHANGED <<station_charger_map, charger_uptime_map, station_id,
                   chargers_left, charger, station_reported_time, available_time,
                   total_time, station_availability, outcome, printed, combineVars>>

\* ---------------------------------------------------- compute_availability
\* `for (station_id, chargers) in station_charger_map`: a HashMap iterates in
\* an order of its own, so any station not yet visited may come next.
NextStation ==
    /\ pc = "stations"
    /\ \E s \in stations_left :
          /\ station_id' = s
          /\ stations_left' = stations_left \ {s}
          /\ chargers_left' = station_charger_map[s]
    /\ pc' = "chargers"
    /\ station_reported_time' = <<>>
    /\ UNCHANGED <<readerVars, charger_uptime_map, charger, available_time,
                   total_time, station_availability, outcome, printed, combineVars>>

\* `if charger_times.is_none() { continue; }`
ChargerAbsent ==
    /\ pc = "chargers"
    /\ \E c \in chargers_left :
          /\ c \notin DOMAIN charger_uptime_map
          /\ charger' = c
          /\ chargers_left' = chargers_left \ {c}
    /\ UNCHANGED <<pc, readerVars, charger_uptime_map, stations_left, station_id,
                   station_reported_time, available_time, total_time,
                   station_availability, outcome, printed, combineVars>>

\* Lines 117-126: the charger's reports are sorted in place and combined;
\* the combined reports join the station's, or the conflict ends the run.
ChargerReports ==
    /\ pc = "chargers"
    /\ \E c \in chargers_left :
          /\ c \in DOMAIN charger_uptime_map
          /\ charger' = c
          /\ chargers_left' = chargers_left \ {c}
          /\ LET charger_times_sorted == SortRanges(charger_uptime_map[c])
                 charger_times_combined == charger_times_combine(charger_times_sorted)
             IN  /\ charger_uptime_map' =
                       MapPut(charger_uptime_map, c, charger_times_sorted)
                 /\ CASE charger_times_combined.kind = "ok" ->
                           /\ station_reported_time' =
                                 station_reported_time \o charger_times_combined.value
                           /\ UNCHANGED <<pc, outcome>>
                      [] charger_times_combined.kind = "err" ->
                           /\ Exit(Err("Conflict", c), 3)
                           /\ UNCHANGED station_reported_time
                      [] charger_times_combined.kind = "panic" ->
                           /\ Exit(charger_times_combined, 101)
                           /\ UNCHANGED station_reported_time
    /\ UNCHANGED <<readerVars, stations_left, station_id, available_time,
                   total_time, station_availability, printed, combineVars>>

\* The commented-out line 132 restored: a station without reports is pushed
\* with 0 percent.
StationNoDataPushesZero ==
    /\ pc = "chargers"
    /\ chargers_left = {}
    /\ station_reported_time = <<>>
    /\ pc' = "stations"
    /\ station_id' = 0
    /\ charger' = 0
    /\ station_availability' = Append(station_availability, <<station_id, 0>>)
    /\ UNCHANGED <<readerVars, charger_uptime_map, stations_left, chargers_left,
                   station_reported_time, available_time, total_time,
                   outcome, printed, combineVars>>

\* `if station_reported_time.len()==0 { continue; }`
StationNoData ==
    /\ pc = "chargers"
    /\ chargers_left = {}
    /\ station_reported_time = <<>>
    /\ pc' = "stations"
    /\ station_id' = 0
    /\ charger' = 0
    /\ UNCHANGED <<readerVars, charger_uptime_map, stations_left, chargers_left,
                   station_reported_time, available_time, total_time,
                   station_availability, outcome, printed, combineVars>>

\* Lines 136-177: the station's reports are sorted and swept.
StationSweep ==
    /\ pc = "chargers"
    /\ chargers_left = {}
    /\ station_reported_time # <<>>
    /\ pc' = "quantize"
    /\ station_reported_time' = SortRanges(station_reported_time)
    /\ available_time' = Sweep(station_reported_time).available_time
    /\ total_time' = Sweep(station_reported_time).total_time
    /\ UNCHANGED <<readerVars, charger_uptime_map, stations_left, station_id,
                   chargers_left, charger, station_availability, outcome, printed,
                   combineVars>>

\* Lines 179-190: the percentage is pushed, or the division panics.
StationQuantize ==
    /\ pc = "quantize"
    /\ LET availability_percent == Quantize(available_time, total_time)
       IN  IF availability_percent.kind = "panic"
           THEN /\ Exit(availability_percent, 101)
                /\ UNCHANGED <<station_id, charger, station_reported_time,
                               available_time, total_time, station_availability>>
           ELSE /\ station_availability' =
                      Append(station_availability,
                             <<station_id, availability_percent.value>>)
                /\ pc' = "stations"
                /\ station_id' = 0
                /\ charger' = 0
                /\ station_reported_time' = <<>>
                /\ available_time' = 0
                /\ total_time' = 0
                /\ UNCHANGED outcome
    /\ UNCHANGED <<readerVars, charger_uptime_map, stations_left, chargers_left,
                   printed, combineVars>>

\* ---------------------------------------------------------------------- main
\* Stable insertion by the station id, `a.0.cmp(&b.0)`.
RECURSIVE InsertById(_, _)
InsertById(p, s) ==
    IF s = <<>> THEN <<p>>
    ELSE IF p[1] < Head(s)[1] THEN <<p>> \o s
    ELSE <<Head(s)>> \o InsertById(p, Tail(s))

RECURSIVE SortById(_)
SortById(s) ==
    IF s = <<>> THEN <<>>
    ELSE InsertById(s[Len(s)], SortById(SubSeq(s, 1, Len(s) - 1)))

\* compute_availability returns Ok; main sorts the pairs by station id and
\* prints them.
PrintAvailability ==
    /\ pc = "stations"
    /\ stations_left = {}
    /\ pc' = "exit"
    /\ outcome' = Success
    /\ printed' = SortById(station_availability)
    /\ UNCHANGED <<readerVars, charger_uptime_map, stations_left, station_id,
                   chargers_left, charger, station_reported_time, available_time,
                   total_time, station_availability, combineVars>>

Next ==
    \/ ReadBlank
    \/ ReadStationsHeader
    \/ ReadReportsHeader
    \/ ReadOutsideSection
    \/ ReadStation
    \/ ReadReport
    \/ ReadFails
    \/ EndOfFile
    \/ NextStation
    \/ ChargerAbsent
    \/ ChargerReports
    \/ StationNoData
    \/ StationSweep
    \/ StationQuantize
    \/ PrintAvailability

Spec == Init /\ [][Next]_vars

\* ------------------------------------------- the normalizer, step by step
\* The reports a charger can hold: parse_charger_availability lets through
\* only from <= to.
Windows == {w \in [from : Times, to : Times, up : BOOLEAN] : w.from <= w.to}

IsSorted(s) == \A k \in 1 .. Len(s) - 1 : ~cmp_less(s[k + 1], s[k])

\* compute_availability sorts a charger's list before it calls
\* charger_times_combine.
SortedLists == {s \in TokenSeqs(Windows, MaxWindows) : IsSorted(s)}

\* compute_availability has reached the one charger of the one station and
\* calls charger_times_combine on its sorted list.
InitCombine ==
    /\ pc = "charger_times_combine"
    /\ charger_times \in SortedLists
    /\ i = 0
    /\ condensed_times = <<>>
    /\ curr_report = NoRange
    /\ combine_result = Running
    /\ station_charger_map = [s \in {1} |-> {1}]
    /\ charger_uptime_map = [c \in {1} |-> charger_times]
    /\ station_id = 1
    /\ charger = 1
    /\ stations_left = {}
    /\ chargers_left = {}
    /\ station_reported_time = <<>>
    /\ available_time = 0
    /\ total_time = 0
    /\ station_availability = <<>>
    /\ printed = <<>>
    /\ outcome = Running
    /\ currently_reading = "None"
    /\ l = NoLine

\* `let first_report = charger_times.first().unwrap();`
CombineFirst ==
    /\ pc = "charger_times_combine"
    /\ i = 0
    /\ IF charger_times = <<>>
       THEN /\ combine_result' = Panic("UnwrapNone")
            /\ pc' = "returned"
            /\ UNCHANGED <<i, curr_report>>
       ELSE /\ curr_report' = charger_times[1]
            /\ i' = 2
            /\ UNCHANGED <<pc, combine_result>>
    /\ UNCHANGED <<readerVars, charger_uptime_map, computeVars, outcome,
                   charger_times, condensed_times>>

\* One iteration of `for i in 1..charger_times.len()` (the model counts
\* from 1, so the loop starts at 2).
CombineNext ==
    /\ pc = "charger_times_combine"
    /\ i >= 2
    /\ i <= Len(charger_times)
    /\ LET it == CombineIter(condensed_times, curr_report, charger_times[i])
       IN  IF it.kind = "conflict"
           THEN /\ combine_result' = Err("OverlappingWindows", 0)
                /\ pc' = "returned"
                /\ UNCHANGED <<i, condensed_times, curr_report>>
           ELSE /\ condensed_times' = it.condensed_times
                /\ curr_report' = it.curr_report
                /\ i' = i + 1
                /\ UNCHANGED <<pc, combine_result>>
    /\ UNCHANGED <<readerVars, charger_uptime_map, computeVars, outcome,
                   charger_times>>

\* `condensed_times.push(curr_report); Ok(condensed_times)`
CombineReturn ==
    /\ pc = "charger_times_combine"
    /\ i > Len(charger_times)
    /\ condensed_times' = Append(condensed_times, curr_report)
    /\ combine_result' = Ok(condensed_times')
    /\ pc' = "returned"
    /\ UNCHANGED <<readerVars, charger_uptime_map, computeVars, outcome,
                   charger_times, i, curr_report>>

\* Lines 120-126: compute_availability takes the combined reports, or
\* returns the conflict as the run's error.
ChargerCombined ==
    /\ pc = "returned"
    /\ CASE combine_result.kind = "ok" ->
              /\ station_reported_time' = station_reported_time \o combine_result.value
              /\ pc' = "chargers"
              /\ UNCHANGED outcome
         [] combine_result.kind = "err" ->
              /\ Exit(Err("Conflict", charger), 3)
              /\ UNCHANGED station_reported_time
         [] combine_result.kind = "panic" ->
              /\ Exit(combine_result, 101)
              /\ UNCHANGED station_reported_time
    /\ UNCHANGED <<readerVars, charger_uptime_map, stations_left, station_id,
                   chargers_left, charger, available_time, total_time,
                   station_availability, printed, combineVars>>

NextCombine ==
    \/ CombineFirst
    \/ CombineNext
    \/ CombineReturn
    \/ ChargerCombined
    \/ StationSweep
    \/ StationQuantize
    \/ PrintAvailability

SpecCombine == InitCombine /\ [][NextCombine]_vars

\* -------------------------------------------------- one station's sweep
\* A station of n chargers with one report each, after the loop over its
\* chargers: station_reported_time holds the n reports.
InitSweep ==
    /\ pc = "chargers"
    /\ \E ws \in SortedLists :
          /\ ws # <<>>
          /\ charger_uptime_map = [c \in 1 .. Len(ws) |-> <<ws[c]>>]
          /\ station_charger_map = [s \in {1} |-> 1 .. Len(ws)]
          /\ station_reported_time = ws
          /\ charger = Len(ws)
    /\ station_id = 1
    /\ stations_left = {}
    /\ chargers_left = {}
    /\ available_time = 0
    /\ total_time = 0
    /\ station_availability = <<>>
    /\ printed = <<>>
    /\ outcome = Running
    /\ currently_reading = "None"
    /\ l = NoLine
    /\ CombineIdle

NextSweep ==
    \/ StationSweep
    \/ StationQuantize
    \/ PrintAvailability

SpecSweep == InitSweep /\ [][NextSweep]_vars

\* ---- one station whose times are chosen to the second -------------
\* The totals lie within QuantizeSpread of zero and around the scaling
\* threshold, the available times within QuantizeSpread of zero and of the
\* total.
QuantizeSpread == 100

QuantizeTotals ==
    {t \in 1 .. ScaleThreshold + 2 * QuantizeSpread :
        t <= QuantizeSpread \/ t >= ScaleThreshold - QuantizeSpread}

QuantizeAvailables(t) ==
    {a \in 0 .. t : a <= QuantizeSpread \/ a >= t - QuantizeSpread}

\* The reports of one charger that is up from 0 to a and down from a to t.
UpThenDown(a, t) ==
    IF a = 0 THEN <<TimeRange(0, t, FALSE)>>
    ELSE IF a = t THEN <<TimeRange(0, t, TRUE)>>
    ELSE <<TimeRange(0, a, TRUE), TimeRange(a, t, FALSE)>>

\* compute_availability has combined the reports of the only charger of
\* station 1 and is about to sweep them.
InitQuantize ==
    /\ pc = "chargers"
    /\ \E t \in QuantizeTotals : \E a \in QuantizeAvailables(t) :
          /\ charger_uptime_map = [c \in {1} |-> UpThenDown(a, t)]
          /\ station_reported_time = charger_times_combine(UpThenDown(a, t)).value
    /\ station_charger_map = [s \in {1} |-> {1}]
    /\ charger = 1
    /\ station_id = 1
    /\ stations_left = {}
    /\ chargers_left = {}
    /\ available_time = 0
    /\ total_time = 0
    /\ station_availability = <<>>
    /\ printed = <<>>
    /\ outcome = Running
    /\ currently_reading = "None"
    /\ l = NoLine
    /\ CombineIdle

SpecQuantize == InitQuantize /\ [][NextSweep]_vars

\* ================================================================== claims
Max(a, b) == IF a >= b THEN a ELSE b
Min(a, b) == IF a <= b THEN a ELSE b

\* The stations of a list of (station, percentage) pairs.
Emitted(pairs) == {pairs[k][1] : k \in 1 .. Len(pairs)}

\* The chargers of station s that hold reports.
Reporting(s) == station_charger_map[s] \cap DOMAIN charger_uptime_map

\* The up reports of the chargers of station s.
UpReports(s) ==
    {w \in UNION {Range(charger_uptime_map[c]) : c \in Reporting(s)} : w.up}

\* The length of the set of instants some up report of station s covers:
\* every report starts and ends on a multiple of TimeStep.
CoveredTime(s) ==
    TimeStep * Cardinality({k \in 0 .. MaxTick - 1 :
        \E w \in UpReports(s) :
            w.from <= k * TimeStep /\ (k + 1) * TimeStep <= w.to})

\* C1: for a station the sweep has finished with a positive total, the
\* available time is the length of the union of the up reports of all its
\* chargers; a down report of one charger takes nothing from an up report of
\* another.
C1_AvailableIsUnionOfUp ==
    (pc = "quantize" /\ total_time > 0) => available_time = CoveredTime(station_id)

\* C2: a station whose reports span no time is left out and the run goes on:
\* the division is never reached with a zero total.
C2_ZeroTotalIsNoData ==
    ~(outcome.kind = "panic" /\ outcome.error = "DivideByZero")

\* Two reports of one charger that disagree and share more than an instant.
Conflicting(w1, w2) ==
    /\ w1.up # w2.up
    /\ Max(w1.from, w2.from) < Min(w1.to, w2.to)

HasConflict(reports) ==
    \E j, k \in 1 .. Len(reports) : Conflicting(reports[j], reports[k])

\* C3: when the charger of the station holds two conflicting reports, the
\* run ends with the conflict error naming it and nothing is printed.
C3_ConflictEndsRun ==
    (pc = "exit" /\ HasConflict(charger_uptime_map[1]))
        => /\ outcome.kind = "err"
           /\ outcome.error = "Conflict"
           /\ outcome.id = 1
           /\ printed = <<>>

\* A station none of whose listed chargers holds a report.
NoData(s) == Reporting(s) = {}

\* C4: a station without chargers, or whose chargers all hold no reports, is
\* in no pair that compute_availability pushes or main prints, and no error
\* of the run names a charger that holds no reports: such a charger is
\* skipped.
C4_NoDataStationOmitted ==
    /\ \A s \in DOMAIN station_charger_map :
          NoData(s) => s \notin Emitted(station_availability) \cup Emitted(printed)
    /\ outcome.error = "Conflict" => outcome.id \in DOMAIN charger_uptime_map
    /\ outcome.error # "UnwrapNone"
    /\ (pc = "chargers" /\ charger # 0 /\ charger \notin DOMAIN charger_uptime_map)
          => outcome = Running

\* A finished run that printed a station one of whose chargers holds no
\* reports, and left out a station that lists only such chargers.
C4_Witness ==
    /\ pc = "exit"
    /\ outcome.kind = "ok"
    /\ \E s1, s2 \in DOMAIN station_charger_map :
          /\ s1 \in Emitted(printed)
          /\ station_charger_map[s1] \ DOMAIN charger_uptime_map # {}
          /\ NoData(s2)
          /\ station_charger_map[s2] # {}
          /\ s2 \notin Emitted(printed)

\* C5: when the sweep of a station ends, 0 <= available_time <= total_time,
\* and every percentage pushed is in 0 .. 100.
C5_AvailableWithinTotal ==
    /\ pc = "quantize" => (0 <= available_time /\ available_time <= total_time)
    /\ \A k \in 1 .. Len(station_availability) :
          station_availability[k][2] \in 0 .. 100
    /\ \A k \in 1 .. Len(printed) : printed[k][2] \in 0 .. 100

\* A station of MaxWindows chargers, swept over the scaling threshold and
\* pushed with a percentage strictly between 0 and 100.
C5_Witness ==
    /\ Len(station_availability) = 1
    /\ station_availability[1][2] \in 1 .. 99
    /\ Cardinality(DOMAIN charger_uptime_map) = MaxWindows
    /\ \E c \in DOMAIN charger_uptime_map :
          charger_uptime_map[c][1].to - charger_uptime_map[c][1].from > ScaleThreshold

\* ---- the run as a function of the maps, whatever the orders
RemoveAt(s, k) == SubSeq(s, 1, k - 1) \o SubSeq(s, k + 1, Len(s))

\* The reports of a list in the one ascending order of (from, to, up),
\* whatever order the list holds them in.
RECURSIVE CanonSort(_)
CanonSort(s) ==
    IF s = <<>> THEN <<>>
    ELSE LET k == CHOOSE j \in 1 .. Len(s) :
                      \A m \in 1 .. Len(s) : ~cmp_less(s[m], s[j])
         IN  <<s[k]>> \o CanonSort(RemoveAt(s, k))

RECURSIVE Ascending(_)
Ascending(S) ==
    IF S = {} THEN <<>>
    ELSE LET m == CHOOSE x \in S : \A y \in S : x <= y
         IN  <<m>> \o Ascending(S \ {m})

\* charger c's reports, given in ascending order, sorted and combined.
UnitCombined(c) ==
    charger_times_combine(SortRanges(CanonSort(charger_uptime_map[c])))

RECURSIVE Concat(_)
Concat(ss) == IF ss = <<>> THEN <<>> ELSE Head(ss) \o Concat(Tail(ss))

\* Station s's reports with its chargers taken in ascending order.
StationCombined(s) ==
    LET cs == Ascending(Reporting(s))
    IN  Concat([k \in 1 .. Len(cs) |-> UnitCombined(cs[k]).value])

StationPercent(s) ==
    LET sw == Sweep(StationCombined(s))
    IN  Quantize(sw.available_time, sw.total_time)

StationFails(s) ==
    \/ \E c \in Reporting(s) : UnitCombined(c).kind # "ok"
    \/ ~NoData(s) /\ StationPercent(s).kind # "ok"

RunSucceeds == \A s \in DOMAIN station_charger_map : ~StationFails(s)

RunPrints ==
    LET ss == Ascending({s \in DOMAIN station_charger_map : ~NoData(s)})
    IN  [k \in 1 .. Len(ss) |-> <<ss[k], StationPercent(ss[k]).value>>]

\* C6: whether compute_availability succeeds, and what main then prints, is
\* fixed by the station membership and by each charger's reports as a
\* multiset, whatever the order the maps iterate in and the order the report
\* lines came in; the printed list is strictly ascending by station id.
C6_RunIsDeterministic ==
    (pc = "exit" /\ outcome.code # 2)
        => /\ outcome.kind = "ok" <=> RunSucceeds
           /\ outcome.kind = "ok" => printed = RunPrints
           /\ \A k \in 1 .. Len(printed) - 1 : printed[k][1] < printed[k + 1][1]

\* A run that printed two stations it had computed in the other order, one
\* of them with two reporting chargers.
C6_Witness ==
    /\ pc = "exit"
    /\ outcome.kind = "ok"
    /\ Len(printed) = 2
    /\ station_availability # printed
    /\ \E s \in DOMAIN station_charger_map : Cardinality(Reporting(s)) = 2

\* C7: a report line whose start is after its end is rejected with the error
\* that names its charger, and every report the charger map holds has
\* from <= to.
C7_FromAfterToRejected ==
    /\ \A c \in DOMAIN charger_uptime_map :
          \A k \in 1 .. Len(charger_uptime_map[c]) :
              charger_uptime_map[c][k].from <= charger_uptime_map[c][k].to
    /\ (/\ currently_reading = "ChargerAvailability"
        /\ l.kind = "data"
        /\ BadToken \notin {l.charger_id, l.start_time, l.end_time}
        /\ l.start_time > l.end_time)
          => /\ pc = "exit"
             /\ outcome.kind = "err"
             /\ outcome.error = "FromAfterTo"
             /\ outcome.id = l.charger_id
             /\ outcome.code = 2

\* A reversed line rejected after an earlier line of the same charger was
\* stored.
C7_Witness ==
    /\ outcome.error = "FromAfterTo"
    /\ l.kind = "data"
    /\ l.start_time > l.end_time
    /\ l.charger_id \in DOMAIN charger_uptime_map
    /\ Len(charger_uptime_map[l.charger_id]) = 1

\* No report of the list starts before an earlier one ends (the overlap test
\* of the normalizer, `curr.from < curr_report.to`; reports that touch do not
\* overlap).
NonOverlapping(reports) ==
    \A j, k \in 1 .. Len(reports) : j < k => reports[k].from >= reports[j].to

C9_ConflictOnlyFailure ==
    pc = "returned"
        => /\ combine_result.kind \in {"ok", "err"}
           /\ charger_times = <<>> => combine_result = Ok(<<>>)

\* C10: a step that merges report i into the accumulator leaves the
\* accumulator's end at the larger of the two ends.
C10_MergeKeepsLargestEnd ==
    [][(/\ pc = "charger_times_combine"
        /\ i >= 2
        /\ i <= Len(charger_times)
        /\ charger_times[i].from < curr_report.to
        /\ charger_times[i].up = curr_report.up)
          => curr_report'.to = Max(curr_report.to, charger_times[i].to)]_vars

\* Scenario B in the model's times: an up report and a down report that
\* starts where the up report ends.
ScenarioB == <<TimeRange(0, TimeStep, TRUE), TimeRange(TimeStep, 2 * TimeStep, FALSE)>>

\* C11: a report that starts exactly where the accumulator ends is never a
\* conflict and is never merged, whatever the two statuses: the accumulator
\* is pushed as it is and the report becomes the new accumulator.  So the
\* charger of scenario B is swept to available = half of total and printed
\* with 50 percent.
C11_TouchingKeptApart ==
    /\ [][(/\ pc = "charger_times_combine"
           /\ i >= 2
           /\ i <= Len(charger_times)
           /\ charger_times[i].from = curr_report.to)
             => /\ pc' = "charger_times_combine"
                /\ combine_result' = Running
                /\ condensed_times' = Append(condensed_times, curr_report)
                /\ curr_report' = charger_times[i]]_vars
    /\ [](charger_times = ScenarioB =>
            /\ pc = "returned" => combine_result = Ok(ScenarioB)
            /\ pc = "quantize" =>
                  (total_time = 2 * TimeStep /\ available_time = TimeStep)
            /\ pc = "exit" => (outcome.kind = "ok" /\ printed = <<<<1, 50>>>>))

\* Scenario B run to its end and printed.
C11_Witness ==
    /\ charger_times = ScenarioB
    /\ pc = "exit"
    /\ combine_result = Ok(ScenarioB)
    /\ printed = <<<<1, 50>>>>

\* The total and the available time of the one charger of station 1, read
\* from its reports: the end of the last report and the length of the up
\* report.
ReportedTotal == charger_uptime_map[1][Len(charger_uptime_map[1])].to

ReportedAvailable ==
    IF charger_uptime_map[1][1].up THEN charger_uptime_map[1][1].to ELSE 0

ExactPercent == (100 * ReportedAvailable) \div ReportedTotal

\* The value the quantizer multiplies or divides by: the available time
\* times one hundred at or below the threshold, the available time itself
\* above it.
ScaledAvailable ==
    IF total_time > ScaleThreshold THEN available_time ELSE available_time * 100

\* C12: for total > 0 and 0 <= available <= total the quantizer does not
\* fail, its percentage is the floor of 100 * available / total or one more,
\* it is exactly that floor when total <= 10000, and the largest
\* intermediate value is at most the total or one hundred times the
\* threshold, far inside the u64 range.
C12_PercentWithinOne ==
    /\ pc = "quantize" =>
          /\ total_time = ReportedTotal
          /\ available_time = ReportedAvailable
          /\ ScaledAvailable <= Max(total_time, 100 * ScaleThreshold)
    /\ pc = "exit" => outcome.kind = "ok"
    /\ station_availability # <<>> =>
          LET p == station_availability[1][2]
          IN  /\ ExactPercent <= p
              /\ p <= ExactPercent + 1
              /\ ReportedTotal <= ScaleThreshold => p = ExactPercent

\* A total above the threshold whose printed percentage is one more than the
\* exact floor.
C12_Witness ==
    /\ pc = "exit"
    /\ ReportedTotal > ScaleThreshold
    /\ printed = <<<<1, ExactPercent + 1>>>>

====
